---- MODULE Spec2Model ----
(***************************************************************************)
(* State-machine model of src/main.cpp: main and the demonstration         *)
(* routines it calls, one after the other, writing to std::cout.           *)
(*                                                                         *)
(* pc is the position of the single thread of control.  cout is the        *)
(* standard output stream: the completed lines, the line under             *)
(* construction and the formatting flags of the stream.  frame holds the   *)
(* locals of the routine that is running and is dropped when it returns.   *)
(***************************************************************************)
EXTENDS Integers, Sequences, FiniteSets, TLC

VARIABLES pc, mainIdx, callLog, cout, frame, lifeLog, retval, exitStatus,
          handled, sumArgs, denominator, atIndex, inject, cpp20

vars == <<pc, mainIdx, callLog, cout, frame, lifeLog, retval, exitStatus,
          handled, sumArgs, denominator, atIndex, inject, cpp20>>

(***************************************************************************)
(* Bounds of the parametrised specifications.                              *)
(***************************************************************************)
MaxDenominator == 2
MaxIndex == 4

(***************************************************************************)
(* int is 32 bits wide.                                                    *)
(***************************************************************************)
INT_MAX == 2147483647
INT_MIN == -2147483647 - 1

IntSamples == {INT_MIN, -7, -1, 0, 5, 7, INT_MAX}

(***************************************************************************)
(* Number formatting.  Digits are produced one at a time, as the library   *)
(* does.                                                                   *)
(***************************************************************************)
DigitChar(d) == <<"0", "1", "2", "3", "4", "5", "6", "7", "8", "9",
                  "a", "b", "c", "d", "e", "f">>[d + 1]

RECURSIVE ToBase(_, _)
ToBase(n, b) == IF n < b THEN DigitChar(n)
                ELSE ToBase(n \div b, b) \o DigitChar(n % b)

\* Decimal text of a signed int.  INT_MIN has no positive counterpart, so
\* its last digit is split off before the sign is dropped.
IntToStr(n) == IF n >= 0 THEN ToBase(n, 10)
               ELSE IF n > -10 THEN "-" \o DigitChar(-n)
               ELSE "-" \o ToBase(-(n \div 10) - (IF n % 10 = 0 THEN 0 ELSE 1), 10)
                        \o DigitChar((10 - (n % 10)) % 10)

RECURSIVE Pow10(_)
Pow10(e) == IF e = 0 THEN 1 ELSE 10 * Pow10(e - 1)

RECURSIVE ZeroPad(_, _)
ZeroPad(s, w) == IF Len(s) >= w THEN s ELSE ZeroPad("0" \o s, w)

\* A double is held in millionths (six decimals), non-negative.
Micro == 1000000
MicroDigits == 6

RoundDiv(m, d) == (m + d \div 2) \div d

\* %.pf : p digits after the decimal point.
FmtFixed(m, p) ==
    LET q    == IF p >= MicroDigits THEN MicroDigits ELSE p
        sc   == RoundDiv(m, Pow10(MicroDigits - q))
        ip   == sc \div Pow10(q)
        fp   == sc % Pow10(q)
        frac == ZeroPad(ToBase(fp, 10), q) \o ZeroPad("", p - q)
    IN  IF p = 0 THEN ToBase(ip, 10) ELSE ToBase(ip, 10) \o "." \o frac

\* Decimal exponent of a positive value in millionths.
RECURSIVE Exp10(_)
Exp10(m) == IF m >= 10 * Micro THEN 1 + Exp10(m \div 10)
            ELSE IF m < Micro THEN Exp10(m * 10) - 1
            ELSE 0

\* %.pe : one digit, p decimals, two-digit exponent.
FmtScientific(m, p) ==
    LET x    == IF m = 0 THEN 0 ELSE Exp10(m)
        mant == IF x >= 0 THEN RoundDiv(m, Pow10(x)) ELSE m * Pow10(-x)
    IN  FmtFixed(mant, p) \o "e" \o (IF x < 0 THEN "-" ELSE "+")
            \o ZeroPad(ToBase(IF x < 0 THEN -x ELSE x, 10), 2)

RECURSIVE StripZeros(_, _)
\* Text of ip.fp where fp has w digits, trailing zeros of the fraction and
\* an empty fraction's point removed (%g without showpoint).
StripZeros(sc, w) ==
    IF w = 0 THEN ToBase(sc, 10)
    ELSE IF sc % 10 = 0 THEN StripZeros(sc \div 10, w - 1)
    ELSE ToBase(sc \div Pow10(w), 10) \o "." \o ZeroPad(ToBase(sc % Pow10(w), 10), w)

\* %.pg : p significant digits.
FmtDefault(m, p) ==
    LET sig == IF p = 0 THEN 1 ELSE p
        x   == IF m = 0 THEN 0 ELSE Exp10(m)
        dec == IF sig - 1 - x > MicroDigits THEN MicroDigits ELSE sig - 1 - x
    IN  IF x < -4 \/ x >= sig THEN FmtScientific(m, sig - 1)
        ELSE StripZeros(RoundDiv(m, Pow10(MicroDigits - dec)), dec)

(***************************************************************************)
(* An output stream: std::cout, and the std::ostringstream of              *)
(* demonstrateModernIO.                                                    *)
(***************************************************************************)
NewStream == [lines |-> <<>>, cur |-> "", boolalpha |-> FALSE,
              showbase |-> FALSE, base |-> 10, floatfield |-> "default",
              precision |-> 6]

FmtFlags(s) == [boolalpha |-> s.boolalpha, showbase |-> s.showbase,
                base |-> s.base, floatfield |-> s.floatfield,
                precision |-> s.precision]

Put(s, text) == [s EXCEPT !.cur = @ \o text]

\* '\n' and std::endl both end the line; the flush of endl is not observable.
Endl(s) == [s EXCEPT !.lines = Append(@, s.cur), !.cur = ""]

PutLine(s, text) == Endl(Put(s, text))

\* "\n----- title -----\n"
Header(s, title) == PutLine(Endl(s), "----- " \o title \o " -----")

FmtInt(s, n) == IF s.base = 16
                THEN (IF s.showbase /\ n # 0 THEN "0x" ELSE "") \o ToBase(n, 16)
                ELSE IntToStr(n)

FmtBool(s, b) == IF s.boolalpha THEN (IF b THEN "true" ELSE "false")
                 ELSE (IF b THEN "1" ELSE "0")

FmtDouble(s, m) == CASE s.floatfield = "fixed"      -> FmtFixed(m, s.precision)
                     [] s.floatfield = "scientific" -> FmtScientific(m, s.precision)
                     [] OTHER                       -> FmtDefault(m, s.precision)

PutInt(s, n) == Put(s, FmtInt(s, n))
PutBool(s, b) == Put(s, FmtBool(s, b))
PutDouble(s, m) == Put(s, FmtDouble(s, m))

Boolalpha(s) == [s EXCEPT !.boolalpha = TRUE]
Showbase(s) == [s EXCEPT !.showbase = TRUE]
Hex(s) == [s EXCEPT !.base = 16]
Dec(s) == [s EXCEPT !.base = 10]
Fixed(s) == [s EXCEPT !.floatfield = "fixed"]
Scientific(s) == [s EXCEPT !.floatfield = "scientific"]
Defaultfloat(s) == [s EXCEPT !.floatfield = "default"]
Setprecision(s, p) == [s EXCEPT !.precision = p]

NoFrame == [routine |-> "main"]


(***************************************************************************)
(* main: the banner, the calls of lines 43-53 in order, the closing line.  *)
(***************************************************************************)
\* main with the calls of lines 51 and 52 exchanged.
MainCallsSwapped == <<"demonstrateBasicSyntax", "demonstrateVariablesAndTypes",
                      "demonstrateControlFlow", "demonstrateFunctions", "returnSum",
                      "demonstrateReferencesAndPointers", "demonstrateClasses",
                      "demonstrateModernCpp", "demonstrateErrorHandling",
                      "demonstrateStl", "demonstrateModernIO">>


MainCalls == <<"demonstrateBasicSyntax", "demonstrateVariablesAndTypes",
               "demonstrateControlFlow", "demonstrateFunctions", "returnSum",
               "demonstrateReferencesAndPointers", "demonstrateClasses",
               "demonstrateModernCpp", "demonstrateStl",
               "demonstrateErrorHandling", "demonstrateModernIO">>

\* main returning a failure status.
MainReturnFailure == 0 + 1


MainReturnValue == 0

\* The locals a routine starts with: its parameters.
CallFrame(name) ==
    CASE name = "demonstrateFunctions" -> [routine |-> name, value |-> 42]
      [] name = "returnSum" -> [routine |-> name, a |-> sumArgs[1], b |-> sumArgs[2]]
      [] OTHER -> [routine |-> name]

\* Lines 39-41.
MainBanner ==
    /\ pc = "main"
    /\ cout' = PutLine(PutLine(PutLine(cout,
                   "=============================="),
                   "C++ Tutorial for C# and JS Developers"),
                   "==============================")
    /\ mainIdx' = 1
    /\ pc' = "main_call"
    /\ UNCHANGED <<callLog, frame, lifeLog, retval, exitStatus, handled,
                   sumArgs, denominator, atIndex, inject, cpp20>>

\* Lines 43-53: the next call.  On line 47 "Sum: " is inserted before the
\* call of returnSum.
MainCall ==
    /\ pc = "main_call"
    /\ mainIdx <= Len(MainCalls)
    /\ LET name == MainCalls[mainIdx]
       IN  /\ callLog' = Append(callLog, <<"call", name>>)
           /\ frame' = CallFrame(name)
           /\ cout' = IF name = "returnSum" THEN Put(cout, "Sum: ") ELSE cout
           /\ pc' = name
    /\ UNCHANGED <<mainIdx, lifeLog, retval, exitStatus, handled,
                   sumArgs, denominator, atIndex, inject, cpp20>>

\* The return of the running routine to main: its locals are gone.
Return(next) ==
    /\ callLog' = Append(callLog, <<"return", frame.routine>>)
    /\ frame' = NoFrame
    /\ mainIdx' = mainIdx + 1
    /\ pc' = next

\* Line 47, after returnSum has returned.
MainPutSum ==
    /\ pc = "main_47"
    /\ cout' = Endl(PutInt(cout, retval))
    /\ pc' = "main_call"
    /\ UNCHANGED <<mainIdx, callLog, frame, lifeLog, retval, exitStatus,
                   handled, sumArgs, denominator, atIndex, inject, cpp20>>

\* Lines 55-56.
MainFinish ==
    /\ pc = "main_call"
    /\ mainIdx > Len(MainCalls)
    /\ cout' = PutLine(Endl(cout), "Tutorial completed successfully!")
    /\ exitStatus' = MainReturnValue
    /\ pc' = "done"
    /\ UNCHANGED <<mainIdx, callLog, frame, lifeLog, retval, handled,
                   sumArgs, denominator, atIndex, inject, cpp20>>

(***************************************************************************)
(* demonstrateBasicSyntax                                                  *)
(***************************************************************************)
BasicSyntax ==
    /\ pc = "demonstrateBasicSyntax"
    /\ cout' = PutLine(Header(cout, "Basic Syntax"), "Hello, World!")
    /\ Return("main_call")
    /\ UNCHANGED <<lifeLog, retval, exitStatus, handled,
                   sumArgs, denominator, atIndex, inject, cpp20>>

(***************************************************************************)
(* demonstrateVariablesAndTypes                                            *)
(***************************************************************************)
\* Lines 80-97.
VT_Declare ==
    /\ pc = "demonstrateVariablesAndTypes"
    /\ cout' = Header(cout, "Variables and Types")
    /\ frame' = [routine |-> frame.routine, integerValue |-> 42,
                 floatingPoint |-> 3141590, singleCharacter |-> "A",
                 booleanValue |-> TRUE, text |-> "Hello, C++",
                 unchangeable |-> 100, wideText |-> "Wide character string"]
    /\ pc' = "vt_100"
    /\ UNCHANGED <<mainIdx, callLog, lifeLog, retval, exitStatus, handled,
                   sumArgs, denominator, atIndex, inject, cpp20>>

\* Lines 100-104.  std::boolalpha is set on std::cout and stays set.
VT_Put ==
    /\ pc = "vt_100"
    /\ LET s1 == Endl(PutInt(Put(cout, "Integer: "), frame.integerValue))
           s2 == Endl(PutDouble(Put(s1, "Double: "), frame.floatingPoint))
           s3 == PutLine(s2, "Char: " \o frame.singleCharacter)
           s4 == Endl(PutBool(Boolalpha(Put(s3, "Boolean: ")), frame.booleanValue))
       IN  cout' = PutLine(s4, "String: " \o frame.text)
    /\ pc' = "vt_107"
    /\ UNCHANGED <<mainIdx, callLog, frame, lifeLog, retval, exitStatus,
                   handled, sumArgs, denominator, atIndex, inject, cpp20>>

\* Lines 107-112.  y is x converted to double and halved; 5/2 is the
\* integer quotient.
VT_Convert ==
    /\ pc = "vt_107"
    /\ LET x  == 5
           y  == (x * Micro) \div 2
           s1 == Endl(PutDouble(Put(cout, "5/2 with conversion: "), y))
       IN  cout' = Endl(PutInt(Put(s1, "5/2 without conversion: "), 5 \div 2))
    /\ Return("main_call")
    /\ UNCHANGED <<lifeLog, retval, exitStatus, handled,
                   sumArgs, denominator, atIndex, inject, cpp20>>

(***************************************************************************)
(* demonstrateControlFlow                                                  *)
(***************************************************************************)
IfChain(x) == IF x > 5 THEN <<"x is greater than 5">>
              ELSE IF x = 5 THEN <<"x is equal to 5">>
              ELSE <<"x is less than 5">>

\* Every case ends in break: one case body runs.
SwitchCases(x) == CASE x = 5  -> <<"x is 5">>
                    [] x = 10 -> <<"x is 10">>
                    [] OTHER  -> <<"x is neither 5 nor 10">>

RECURSIVE PutLines(_, _)
PutLines(s, ls) == IF ls = <<>> THEN s
                   ELSE PutLines(PutLine(s, Head(ls)), Tail(ls))

\* The loops stopping one iteration early.
LoopBoundFour == 5 - 1

LoopBound == 5

\* Lines 117-127.
CF_If ==
    /\ pc = "demonstrateControlFlow"
    /\ frame' = [routine |-> frame.routine, x |-> 10]
    /\ cout' = PutLines(Header(cout, "Control Flow"), IfChain(10))
    /\ pc' = "cf_130"
    /\ UNCHANGED <<mainIdx, callLog, lifeLog, retval, exitStatus, handled,
                   sumArgs, denominator, atIndex, inject, cpp20>>

\* Lines 130-143: the switch, then the for loop's label and int i = 0.
CF_Switch ==
    /\ pc = "cf_130"
    /\ cout' = Put(PutLines(cout, SwitchCases(frame.x)), "For loop: ")
    /\ frame' = [routine |-> frame.routine, x |-> frame.x, i |-> 0]
    /\ pc' = "cf_144"
    /\ UNCHANGED <<mainIdx, callLog, lifeLog, retval, exitStatus, handled,
                   sumArgs, denominator, atIndex, inject, cpp20>>

\* Lines 144-151: one test of the for loop, then its body and i++, or the
\* exit, which declares numbers and writes the next label.
CF_For ==
    /\ pc = "cf_144"
    /\ IF frame.i < LoopBound
       THEN /\ cout' = Put(PutInt(cout, frame.i), " ")
            /\ frame' = [frame EXCEPT !.i = @ + 1]
            /\ pc' = "cf_144"
       ELSE /\ cout' = Put(Endl(cout), "Range-based for loop: ")
            /\ frame' = [routine |-> frame.routine, x |-> frame.x,
                         numbers |-> <<1, 2, 3, 4, 5>>, k |-> 1]
            /\ pc' = "cf_152"
    /\ UNCHANGED <<mainIdx, callLog, lifeLog, retval, exitStatus, handled,
                   sumArgs, denominator, atIndex, inject, cpp20>>

\* Lines 152-159: the range-based for; k is the iterator's position.
CF_RangeFor ==
    /\ pc = "cf_152"
    /\ IF frame.k <= Len(frame.numbers)
       THEN /\ cout' = Put(PutInt(cout, frame.numbers[frame.k]), " ")
            /\ frame' = [frame EXCEPT !.k = @ + 1]
            /\ pc' = "cf_152"
       ELSE /\ cout' = Put(Endl(cout), "While loop: ")
            /\ frame' = [routine |-> frame.routine, x |-> frame.x,
                         numbers |-> frame.numbers, i |-> 0]
            /\ pc' = "cf_160"
    /\ UNCHANGED <<mainIdx, callLog, lifeLog, retval, exitStatus, handled,
                   sumArgs, denominator, atIndex, inject, cpp20>>

\* Lines 160-168.
CF_While ==
    /\ pc = "cf_160"
    /\ IF frame.i < LoopBound
       THEN /\ cout' = Put(PutInt(cout, frame.i), " ")
            /\ frame' = [frame EXCEPT !.i = @ + 1]
            /\ pc' = "cf_160"
       ELSE /\ cout' = Put(Endl(cout), "Do-while loop: ")
            /\ frame' = [frame EXCEPT !.i = 0]
            /\ pc' = "cf_169"
    /\ UNCHANGED <<mainIdx, callLog, lifeLog, retval, exitStatus, handled,
                   sumArgs, denominator, atIndex, inject, cpp20>>

\* Lines 169-171: the body of the do-while, entered without a test.
CF_DoBody ==
    /\ pc = "cf_169"
    /\ cout' = Put(PutInt(cout, frame.i), " ")
    /\ frame' = [frame EXCEPT !.i = @ + 1]
    /\ pc' = "cf_172"
    /\ UNCHANGED <<mainIdx, callLog, lifeLog, retval, exitStatus, handled,
                   sumArgs, denominator, atIndex, inject, cpp20>>

\* Line 172: the test after the body.
CF_DoTest ==
    /\ pc = "cf_172"
    /\ frame.i < LoopBound
    /\ pc' = "cf_169"
    /\ UNCHANGED <<mainIdx, callLog, cout, frame, lifeLog, retval, exitStatus,
                   handled, sumArgs, denominator, atIndex, inject, cpp20>>

\* Lines 172-174: the test fails, the routine returns.
CF_DoExit ==
    /\ pc = "cf_172"
    /\ ~(frame.i < LoopBound)
    /\ cout' = Endl(cout)
    /\ Return("main_call")
    /\ UNCHANGED <<lifeLog, retval, exitStatus, handled,
                   sumArgs, denominator, atIndex, inject, cpp20>>

(***************************************************************************)
(* demonstrateFunctions and returnSum                                      *)
(***************************************************************************)
\* The lambda of lines 190-192 with its default arguments.
defaultParamFunction(args) ==
    LET a == IF Len(args) >= 1 THEN args[1] ELSE 1
        b == IF Len(args) >= 2 THEN args[2] ELSE 2
    IN  a + b

\* Lines 179-186.
F_Param ==
    /\ pc = "demonstrateFunctions"
    /\ LET s1 == Endl(PutInt(Put(Header(cout, "Functions"),
                                 "Function parameter: "), frame.value))
           localVar == 100
       IN  cout' = Endl(PutInt(Put(s1, "Inside local scope: "), localVar))
    /\ pc' = "fn_190"
    /\ UNCHANGED <<mainIdx, callLog, frame, lifeLog, retval, exitStatus,
                   handled, sumArgs, denominator, atIndex, inject, cpp20>>

\* Lines 190-197.
F_Lambda ==
    /\ pc = "fn_190"
    /\ LET s1 == Endl(PutInt(Put(cout, "Default params (no args): "),
                             defaultParamFunction(<<>>)))
           s2 == Endl(PutInt(Put(s1, "Default params (one arg): "),
                             defaultParamFunction(<<10>>)))
       IN  cout' = Endl(PutInt(Put(s2, "Default params (two args): "),
                               defaultParamFunction(<<10, 20>>)))
    /\ Return("main_call")
    /\ UNCHANGED <<lifeLog, retval, exitStatus, handled,
                   sumArgs, denominator, atIndex, inject, cpp20>>

\* a + b is representable in an int.
SumFits(a, b) == /\ (b > 0 => a <= INT_MAX - b)
                 /\ (b < 0 => a >= INT_MIN - b)

\* returnSum forgetting its first argument.
returnSumOfOne(a, b) == {b}

\* Line 201.  Signed overflow is undefined: any int may come back.
returnSum(a, b) == IF SumFits(a, b) THEN {a + b} ELSE IntSamples

ReturnSum ==
    /\ pc = "returnSum"
    /\ retval' \in returnSum(frame.a, frame.b)
    /\ Return("main_47")
    /\ UNCHANGED <<cout, lifeLog, exitStatus, handled,
                   sumArgs, denominator, atIndex, inject, cpp20>>


(***************************************************************************)
(* demonstrateReferencesAndPointers                                        *)
(*                                                                         *)
(* mem maps the address of each object of the routine to its value.  The   *)
(* reference and the pointer hold addresses.  Where the locals lie on the  *)
(* stack is the build's choice.                                            *)
(***************************************************************************)
StackBases == {28672, 61440}
HeapCell == 4096

\* operator<<(const void*): the address in hexadecimal with its prefix.
FmtPointer(addr) == "0x" \o ToBase(addr, 16)

\* Lines 206-213.
RP_Reference ==
    /\ pc = "demonstrateReferencesAndPointers"
    /\ \E base \in StackBases :
         LET original  == base + 8
             reference == original
             mem       == (original :> 42)
             s1 == Endl(PutInt(Put(Header(cout, "References and Pointers"),
                                   "Original: "), mem[original]))
         IN  /\ cout' = Endl(PutInt(Put(s1, "Reference: "), mem[reference]))
             /\ frame' = [routine |-> frame.routine, base |-> base,
                          original |-> original, reference |-> reference,
                          mem |-> mem]
    /\ pc' = "rp_216"
    /\ UNCHANGED <<mainIdx, callLog, lifeLog, retval, exitStatus, handled,
                   sumArgs, denominator, atIndex, inject, cpp20>>

\* Lines 216-217: reference = 100.
RP_WriteReference ==
    /\ pc = "rp_216"
    /\ LET mem == [frame.mem EXCEPT ![frame.reference] = 100]
       IN  /\ frame' = [frame EXCEPT !.mem = mem]
           /\ cout' = Endl(PutInt(Put(cout, "After modifying reference, original: "),
                                  mem[frame.original]))
    /\ pc' = "rp_220"
    /\ UNCHANGED <<mainIdx, callLog, lifeLog, retval, exitStatus, handled,
                   sumArgs, denominator, atIndex, inject, cpp20>>

\* The pointer initialised with the address of original.
PointerInitOriginal(original, value) == original

\* Line 221: int* pointer = &value, given the addresses of the two locals.
PointerInit(original, value) == value

\* Lines 220-225.
RP_Pointer ==
    /\ pc = "rp_220"
    /\ LET value   == frame.base + 4
           pointer == PointerInit(frame.original, value)
           mem     == frame.mem @@ (value :> 42)
           s1 == Endl(PutInt(Put(cout, "Value: "), mem[value]))
           s2 == PutLine(s1, "Pointer address: " \o FmtPointer(pointer))
       IN  /\ cout' = Endl(PutInt(Put(s2, "Dereferenced pointer: "), mem[pointer]))
           /\ frame' = [routine |-> frame.routine, base |-> frame.base,
                        original |-> frame.original,
                        reference |-> frame.reference,
                        value |-> value, pointer |-> pointer, mem |-> mem]
    /\ pc' = "rp_228"
    /\ UNCHANGED <<mainIdx, callLog, lifeLog, retval, exitStatus, handled,
                   sumArgs, denominator, atIndex, inject, cpp20>>

\* Lines 228-229: *pointer = 200.
RP_WritePointer ==
    /\ pc = "rp_228"
    /\ LET mem == [frame.mem EXCEPT ![frame.pointer] = 200]
       IN  /\ frame' = [frame EXCEPT !.mem = mem]
           /\ cout' = Endl(PutInt(Put(cout, "After modifying pointer, value: "),
                                  mem[frame.value]))
    /\ pc' = "rp_232"
    /\ UNCHANGED <<mainIdx, callLog, lifeLog, retval, exitStatus, handled,
                   sumArgs, denominator, atIndex, inject, cpp20>>

\* Line 232-233: std::make_unique<int>(42).
RP_SmartPointer ==
    /\ pc = "rp_232"
    /\ LET smartPtr == HeapCell
           mem      == frame.mem @@ (smartPtr :> 42)
       IN  /\ frame' = [routine |-> frame.routine, base |-> frame.base,
                        original |-> frame.original,
                        reference |-> frame.reference,
                        value |-> frame.value, pointer |-> frame.pointer,
                        smartPtr |-> smartPtr, mem |-> mem]
           /\ cout' = Endl(PutInt(Put(cout, "Smart pointer value: "), mem[smartPtr]))
    /\ pc' = "rp_237"
    /\ UNCHANGED <<mainIdx, callLog, lifeLog, retval, exitStatus, handled,
                   sumArgs, denominator, atIndex, inject, cpp20>>

\* Line 237: the unique_ptr frees its int, the locals go.
RP_Return ==
    /\ pc = "rp_237"
    /\ Return("main_call")
    /\ UNCHANGED <<cout, lifeLog, retval, exitStatus, handled,
                   sumArgs, denominator, atIndex, inject, cpp20>>

(***************************************************************************)
(* Person, Employee and demonstrateClasses                                 *)
(*                                                                         *)
(* objs holds the objects by name with their fields; scope lists the       *)
(* routine's locals in declaration order.  lifeLog records every           *)
(* construction, member call and destruction of a Person.                  *)
(***************************************************************************)
\* Lines 248-250.
PersonCtorLine(name) == "Person created: " \o name

\* Lines 254-256.
PersonDtorLine(name) == "Person destroyed: " \o name

\* Line 279.
EmployeeCtorLine(company) == "Employee created at " \o company

\* Lines 259-261 and 283-286.  introduce is not virtual: the class named in
\* the type of the expression it is called on selects the version.
introduce(s, class, obj) ==
    IF class = "Employee"
    THEN "Hi, I'm " \o obj.name \o ", " \o FmtInt(s, obj.age)
             \o " years old, and I work at " \o obj.company \o "."
    ELSE "Hi, I'm " \o obj.name \o " and I'm " \o FmtInt(s, obj.age)
             \o " years old."

NewPerson(name, age) == [class |-> "Person", name |-> name, age |-> age,
                         company |-> "", alive |-> TRUE]

NewEmployee(name, age, company) == [class |-> "Employee", name |-> name,
                                    age |-> age, company |-> company,
                                    alive |-> TRUE]

\* Lines 290-294.
CL_Alice ==
    /\ pc = "demonstrateClasses"
    /\ LET alice == NewPerson("Alice", 30)
           s1 == PutLine(Header(cout, "Classes and OOP"), PersonCtorLine(alice.name))
       IN  /\ cout' = PutLine(s1, introduce(s1, "Person", alice))
           /\ frame' = [routine |-> frame.routine,
                        objs |-> ("Alice" :> alice),
                        scope |-> <<[var |-> "alice", kind |-> "object", obj |-> "Alice"]>>,
                        refs |-> <<>>]
    /\ lifeLog' = lifeLog \o <<<<"ctor", "Alice">>, <<"use", "Alice">>>>
    /\ pc' = "cl_297"
    /\ UNCHANGED <<mainIdx, callLog, retval, exitStatus, handled,
                   sumArgs, denominator, atIndex, inject, cpp20>>

\* Lines 297-298: new Person, held by a raw pointer.
CL_NewBob ==
    /\ pc = "cl_297"
    /\ LET bob == NewPerson("Bob", 25)
           s1  == PutLine(cout, PersonCtorLine(bob.name))
       IN  /\ cout' = PutLine(s1, introduce(s1, "Person", bob))
           /\ frame' = [frame EXCEPT
                          !.objs = @ @@ ("Bob" :> bob),
                          !.scope = Append(@, [var |-> "bob", kind |-> "raw", obj |-> "Bob"])]
    /\ lifeLog' = lifeLog \o <<<<"ctor", "Bob">>, <<"use", "Bob">>>>
    /\ pc' = "cl_299"
    /\ UNCHANGED <<mainIdx, callLog, retval, exitStatus, handled,
                   sumArgs, denominator, atIndex, inject, cpp20>>

\* The destructor of the object named id runs.
Destroy(fr, id) == [fr EXCEPT !.objs[id].alive = FALSE]

\* Line 299: delete bob.
CL_DeleteBob ==
    /\ pc = "cl_299"
    /\ cout' = PutLine(cout, PersonDtorLine(frame.objs["Bob"].name))
    /\ frame' = Destroy(frame, "Bob")
    /\ lifeLog' = Append(lifeLog, <<"dtor", "Bob">>)
    /\ pc' = "cl_302"
    /\ UNCHANGED <<mainIdx, callLog, retval, exitStatus, handled,
                   sumArgs, denominator, atIndex, inject, cpp20>>

\* Lines 302-303: std::make_shared, one owner.
CL_Charlie ==
    /\ pc = "cl_302"
    /\ LET charlie == NewPerson("Charlie", 35)
           s1 == PutLine(cout, PersonCtorLine(charlie.name))
       IN  /\ cout' = PutLine(s1, introduce(s1, "Person", charlie))
           /\ frame' = [frame EXCEPT
                          !.objs = @ @@ ("Charlie" :> charlie),
                          !.scope = Append(@, [var |-> "charlie", kind |-> "shared", obj |-> "Charlie"]),
                          !.refs = ("Charlie" :> 1)]
    /\ lifeLog' = lifeLog \o <<<<"ctor", "Charlie">>, <<"use", "Charlie">>>>
    /\ pc' = "cl_307"
    /\ UNCHANGED <<mainIdx, callLog, retval, exitStatus, handled,
                   sumArgs, denominator, atIndex, inject, cpp20>>

\* The lines an Employee's construction writes: the base class first
\* (line 278), then the constructor's body (line 279).
EmployeeCtorLines(e) == <<PersonCtorLine(e.name), EmployeeCtorLine(e.company)>>

\* Line 307.
CL_Dave ==
    /\ pc = "cl_307"
    /\ LET dave == NewEmployee("Dave", 40, "Acme Inc")
       IN  /\ cout' = PutLines(cout, EmployeeCtorLines(dave))
           /\ frame' = [frame EXCEPT
                          !.objs = @ @@ ("Dave" :> dave),
                          !.scope = Append(@, [var |-> "dave", kind |-> "object", obj |-> "Dave"])]
    /\ lifeLog' = Append(lifeLog, <<"ctor", "Dave">>)
    /\ pc' = "cl_308"
    /\ UNCHANGED <<mainIdx, callLog, retval, exitStatus, handled,
                   sumArgs, denominator, atIndex, inject, cpp20>>

\* introduce resolved to the base class for every local.
DeclaredClassBase(var) == "Person"

\* The class in the declared type of a local of demonstrateClasses.
DeclaredClass(var) == IF var = "dave" THEN "Employee" ELSE "Person"

\* Line 308: dave.introduce().
CL_DaveIntroduce ==
    /\ pc = "cl_308"
    /\ cout' = PutLine(cout, introduce(cout, DeclaredClass("dave"), frame.objs["Dave"]))
    /\ lifeLog' = Append(lifeLog, <<"use", "Dave">>)
    /\ pc' = "cl_309"
    /\ UNCHANGED <<mainIdx, callLog, frame, retval, exitStatus, handled,
                   sumArgs, denominator, atIndex, inject, cpp20>>

\* Locals destroyed in declaration order.
NextOutOfScopeFirst(scope) == 1

\* The local that leaves scope next: the one declared last.
NextOutOfScope(scope) == Len(scope)

\* Line 309, the closing brace: one local is destroyed.  An object runs its
\* destructor; a shared_ptr gives up its share and the last owner destroys
\* the object; a raw pointer does nothing.
CL_ScopeExit ==
    /\ pc = "cl_309"
    /\ frame.scope # <<>>
    /\ LET n     == NextOutOfScope(frame.scope)
           local == frame.scope[n]
           rest  == [j \in 1..(Len(frame.scope) - 1) |->
                        IF j < n THEN frame.scope[j] ELSE frame.scope[j + 1]]
           dies  == \/ local.kind = "object"
                    \/ local.kind = "shared" /\ frame.refs[local.obj] = 1
           fr1   == [frame EXCEPT !.scope = rest]
           fr2   == IF local.kind = "shared"
                    THEN [fr1 EXCEPT !.refs[local.obj] = @ - 1] ELSE fr1
       IN  IF dies
           THEN /\ cout' = PutLine(cout, PersonDtorLine(frame.objs[local.obj].name))
                /\ lifeLog' = Append(lifeLog, <<"dtor", local.obj>>)
                /\ frame' = Destroy(fr2, local.obj)
           ELSE /\ frame' = fr2
                /\ UNCHANGED <<cout, lifeLog>>
    /\ pc' = "cl_309"
    /\ UNCHANGED <<mainIdx, callLog, retval, exitStatus, handled,
                   sumArgs, denominator, atIndex, inject, cpp20>>

\* Every local is gone: the routine returns.
CL_Return ==
    /\ pc = "cl_309"
    /\ frame.scope = <<>>
    /\ Return("main_call")
    /\ UNCHANGED <<cout, lifeLog, retval, exitStatus, handled,
                   sumArgs, denominator, atIndex, inject, cpp20>>


(***************************************************************************)
(* demonstrateModernCpp                                                    *)
(***************************************************************************)
\* The lambdas of lines 323 and 328.
add(a, b) == a + b
multiply(multiplier, x) == x * multiplier

\* What a string holds after it was moved from: valid but unspecified.
MovedFrom(str) == {"", str}

\* Lines 313-320.
MC_Auto ==
    /\ pc = "demonstrateModernCpp"
    /\ LET value == 42
           text  == "hello"
           pi    == 3141590
           s1 == Put(PutInt(Put(Header(cout, "Modern C++ Features"),
                                "Auto variables: "), value), ", " \o text \o ", ")
       IN  cout' = Endl(PutDouble(s1, pi))
    /\ pc' = "mc_323"
    /\ UNCHANGED <<mainIdx, callLog, frame, lifeLog, retval, exitStatus,
                   handled, sumArgs, denominator, atIndex, inject, cpp20>>

\* Lines 323-329.
MC_Lambda ==
    /\ pc = "mc_323"
    /\ LET multiplier == 10
           s1 == Endl(PutInt(Put(cout, "Lambda result: "), add(3, 4)))
       IN  cout' = Endl(PutInt(Put(s1, "Lambda with capture: "),
                               multiply(multiplier, 5)))
    /\ pc' = "mc_332"
    /\ UNCHANGED <<mainIdx, callLog, frame, lifeLog, retval, exitStatus,
                   handled, sumArgs, denominator, atIndex, inject, cpp20>>

\* Lines 332-340.
MC_Move ==
    /\ pc = "mc_332"
    /\ \E source \in MovedFrom("Original string") :
         LET destination == "Original string"
             s1 == PutLine(cout, "After move, destination: " \o destination)
             s2 == PutLine(s1, "After move, source: " \o source)
         IN  /\ cout' = Put(s2, "Initializer list: ")
             /\ frame' = [routine |-> frame.routine, source |-> source,
                          destination |-> destination,
                          numbers |-> <<1, 2, 3, 4, 5>>, k |-> 1]
    /\ pc' = "mc_341"
    /\ UNCHANGED <<mainIdx, callLog, lifeLog, retval, exitStatus, handled,
                   sumArgs, denominator, atIndex, inject, cpp20>>

\* Lines 341-343: one step of the range-based for.
MC_Loop ==
    /\ pc = "mc_341"
    /\ frame.k <= Len(frame.numbers)
    /\ cout' = Put(PutInt(cout, frame.numbers[frame.k]), " ")
    /\ frame' = [frame EXCEPT !.k = @ + 1]
    /\ pc' = "mc_341"
    /\ UNCHANGED <<mainIdx, callLog, lifeLog, retval, exitStatus, handled,
                   sumArgs, denominator, atIndex, inject, cpp20>>

\* Lines 344-345.
MC_Return ==
    /\ pc = "mc_341"
    /\ frame.k > Len(frame.numbers)
    /\ cout' = Endl(cout)
    /\ Return("main_call")
    /\ UNCHANGED <<lifeLog, retval, exitStatus, handled,
                   sumArgs, denominator, atIndex, inject, cpp20>>

(***************************************************************************)
(* demonstrateStl                                                          *)
(***************************************************************************)
push_back(v, x) == Append(v, x)

\* pop_back removing the first element.
pop_front(v) == Tail(v)


pop_back(v) == SubSeq(v, 1, Len(v) - 1)

\* std::find: the offset of the first element equal to x, or the length
\* (end()) when there is none.
RECURSIVE FindFrom(_, _, _)
FindFrom(v, x, i) == IF i > Len(v) THEN Len(v)
                     ELSE IF v[i] = x THEN i - 1
                     ELSE FindFrom(v, x, i + 1)

find(v, x) == FindFrom(v, x, 1)

\* std::sort: the elements in ascending order.  Rank is the place of v[j]
\* in that order: after every smaller element and every equal one before it.
Rank(v, j) == Cardinality({k \in 1..Len(v) : v[k] < v[j] \/ (v[k] = v[j] /\ k < j)}) + 1

sort(v) == [i \in 1..Len(v) |-> v[CHOOSE j \in 1..Len(v) : Rank(v, j) = i]]

\* The lambda of line 394.
Twice(x) == x * 2

\* Lines 392-394: doubled has numbers.size() zeros, std::transform then
\* writes Twice of each element of numbers at the same offset.
transform(v) == [i \in 1..Len(v) |-> Twice(v[i])]

\* std::map<std::string, int>: entries in ascending key order.  The keys
\* used compare as their first letters do.
KeyRank(k) == CASE k = "Alice" -> 1 [] k = "Bob" -> 2 [] k = "Charlie" -> 3

RECURSIVE MapSet(_, _, _)
MapSet(m, k, x) ==
    IF m = <<>> THEN <<<<k, x>>>>
    ELSE IF Head(m)[1] = k THEN <<<<k, x>>>> \o Tail(m)
    ELSE IF KeyRank(k) < KeyRank(Head(m)[1]) THEN <<<<k, x>>>> \o m
    ELSE <<Head(m)>> \o MapSet(Tail(m), k, x)

\* Lines 349-352.
ST_Vector ==
    /\ pc = "demonstrateStl"
    /\ cout' = Header(cout, "Standard Template Library")
    /\ frame' = [routine |-> frame.routine, numbers |-> <<10, 20, 30, 40, 50>>,
                 k |-> 1, ages |-> <<>>, doubled |-> <<>>]
    /\ pc' = "st_354"
    /\ UNCHANGED <<mainIdx, callLog, lifeLog, retval, exitStatus, handled,
                   sumArgs, denominator, atIndex, inject, cpp20>>

\* Line 354.
ST_PushBack ==
    /\ pc = "st_354"
    /\ frame' = [frame EXCEPT !.numbers = push_back(@, 60)]
    /\ pc' = "st_355"
    /\ UNCHANGED <<mainIdx, callLog, cout, lifeLog, retval, exitStatus,
                   handled, sumArgs, denominator, atIndex, inject, cpp20>>

\* Lines 355-357.
ST_PopBack ==
    /\ pc = "st_355"
    /\ frame' = [frame EXCEPT !.numbers = pop_back(@)]
    /\ cout' = Put(cout, "Vector elements: ")
    /\ pc' = "st_358"
    /\ UNCHANGED <<mainIdx, callLog, lifeLog, retval, exitStatus, handled,
                   sumArgs, denominator, atIndex, inject, cpp20>>

\* One step of a range-based for over a vector of ints.
RangeForStep(v) ==
    /\ frame.k <= Len(v)
    /\ cout' = Put(PutInt(cout, v[frame.k]), " ")
    /\ frame' = [frame EXCEPT !.k = @ + 1]
    /\ UNCHANGED pc

\* Lines 358-360.
ST_LoopVector ==
    /\ pc = "st_358"
    /\ RangeForStep(frame.numbers)
    /\ UNCHANGED <<mainIdx, callLog, lifeLog, retval, exitStatus, handled,
                   sumArgs, denominator, atIndex, inject, cpp20>>

\* Lines 361-369.
ST_Map ==
    /\ pc = "st_358"
    /\ frame.k > Len(frame.numbers)
    /\ LET ages == MapSet(MapSet(MapSet(frame.ages, "Alice", 30), "Bob", 25),
                          "Charlie", 35)
       IN  frame' = [frame EXCEPT !.ages = ages, !.k = 1]
    /\ cout' = PutLine(Endl(cout), "Map elements:")
    /\ pc' = "st_370"
    /\ UNCHANGED <<mainIdx, callLog, lifeLog, retval, exitStatus, handled,
                   sumArgs, denominator, atIndex, inject, cpp20>>

\* Lines 370-372.
ST_LoopMap ==
    /\ pc = "st_370"
    /\ frame.k <= Len(frame.ages)
    /\ LET pair == frame.ages[frame.k]
       IN  cout' = Endl(PutInt(Put(cout, pair[1] \o ": "), pair[2]))
    /\ frame' = [frame EXCEPT !.k = @ + 1]
    /\ pc' = "st_370"
    /\ UNCHANGED <<mainIdx, callLog, lifeLog, retval, exitStatus, handled,
                   sumArgs, denominator, atIndex, inject, cpp20>>

\* Lines 375-381.
ST_Find ==
    /\ pc = "st_370"
    /\ frame.k > Len(frame.ages)
    /\ LET it == find(frame.numbers, 30)
           s1 == Put(cout, "Find 30 in vector: ")
       IN  cout' = IF it # Len(frame.numbers)
                   THEN Endl(PutInt(Put(s1, "Found at position "), it))
                   ELSE PutLine(s1, "Not found")
    /\ pc' = "st_384"
    /\ UNCHANGED <<mainIdx, callLog, frame, lifeLog, retval, exitStatus,
                   handled, sumArgs, denominator, atIndex, inject, cpp20>>

\* Lines 384-385.
ST_Sort ==
    /\ pc = "st_384"
    /\ frame' = [frame EXCEPT !.numbers = sort(@), !.k = 1]
    /\ cout' = Put(cout, "Sorted vector: ")
    /\ pc' = "st_386"
    /\ UNCHANGED <<mainIdx, callLog, lifeLog, retval, exitStatus, handled,
                   sumArgs, denominator, atIndex, inject, cpp20>>

\* Lines 386-388.
ST_LoopSorted ==
    /\ pc = "st_386"
    /\ RangeForStep(frame.numbers)
    /\ UNCHANGED <<mainIdx, callLog, lifeLog, retval, exitStatus, handled,
                   sumArgs, denominator, atIndex, inject, cpp20>>

\* Lines 389-396.
ST_Transform ==
    /\ pc = "st_386"
    /\ frame.k > Len(frame.numbers)
    /\ frame' = [frame EXCEPT !.doubled = transform(frame.numbers), !.k = 1]
    /\ cout' = Put(Endl(cout), "Doubled vector: ")
    /\ pc' = "st_397"
    /\ UNCHANGED <<mainIdx, callLog, lifeLog, retval, exitStatus, handled,
                   sumArgs, denominator, atIndex, inject, cpp20>>

\* Lines 397-399.
ST_LoopDoubled ==
    /\ pc = "st_397"
    /\ RangeForStep(frame.doubled)
    /\ UNCHANGED <<mainIdx, callLog, lifeLog, retval, exitStatus, handled,
                   sumArgs, denominator, atIndex, inject, cpp20>>

\* Lines 400-401.
ST_Return ==
    /\ pc = "st_397"
    /\ frame.k > Len(frame.doubled)
    /\ cout' = Endl(cout)
    /\ Return("main_call")
    /\ UNCHANGED <<lifeLog, retval, exitStatus, handled,
                   sumArgs, denominator, atIndex, inject, cpp20>>


(***************************************************************************)
(* demonstrateErrorHandling                                                *)
(*                                                                         *)
(* denominator is the value written on line 412 and atIndex the argument   *)
(* of vec.at on line 425; inject is an exception raised by the             *)
(* construction of vec on line 423 ("none": it succeeds).                  *)
(***************************************************************************)
\* The denominator changed to 0, as the comment on line 412 suggests.
DenominatorZero == 2 - 2


Denominator == 2
AtIndex == 1
Injections == {"none", "bad_alloc", "other"}

\* Exit status of a process ended by std::terminate (SIGABRT).
AbortStatus == 134
Running == -1

\* The clauses without the catch-all.
HandlerChainNoCatchAll == <<"runtime_error", "out_of_range", "exception">>

\* The clauses with the generic one first.
HandlerChainGenericFirst == <<"exception", "runtime_error", "out_of_range", "...">>

\* The catch clauses of lines 427-436, in order.
HandlerChain == <<"runtime_error", "out_of_range", "exception", "...">>

\* The classes an exception of the given type can be caught as.
Bases(type) ==
    CASE type = "runtime_error" -> {"runtime_error", "exception"}
      [] type = "out_of_range"  -> {"out_of_range", "logic_error", "exception"}
      [] type = "bad_alloc"     -> {"bad_alloc", "exception"}
      [] OTHER                  -> {type}

Matches(clause, type) == clause = "..." \/ clause \in Bases(type)

\* The first clause that matches, 0 when none does.
RECURSIVE CatchFrom(_, _)
CatchFrom(type, i) == IF i > Len(HandlerChain) THEN 0
                      ELSE IF Matches(HandlerChain[i], type) THEN i
                      ELSE CatchFrom(type, i + 1)

Catch(type) == CatchFrom(type, 1)

\* Lines 429, 432, 435, 438.
HandlerLine(clause, what) ==
    CASE clause = "runtime_error" -> "Runtime error: " \o what
      [] clause = "out_of_range"  -> "Out of range error: " \o what
      [] clause = "exception"     -> "Standard exception: " \o what
      [] OTHER                    -> "Unknown exception occurred"

\* Line 416.
DivisionByZero == [type |-> "runtime_error", what |-> "Division by zero!"]

\* vector::at past the end; the text of what() is the library's.
OutOfRange(n, size) ==
    [type |-> "out_of_range",
     what |-> "vector::_M_range_check: __n (which is " \o IntToStr(n)
                  \o ") >= this->size() (which is " \o IntToStr(size) \o ")"]

Injected(type) == [type |-> type,
                   what |-> IF type = "bad_alloc" THEN "std::bad_alloc" ELSE ""]

\* An exception leaves the try block with the stream in state s: the first
\* matching clause runs (handled records the exception and the clause) and
\* the routine returns; with no matching clause the exception leaves main
\* and the process is terminated.
Throw(exc, s) ==
    LET h == Catch(exc.type)
    IN  IF h = 0
        THEN /\ cout' = s
             /\ pc' = "terminated"
             /\ exitStatus' = AbortStatus
             /\ UNCHANGED <<mainIdx, callLog, frame, handled>>
        ELSE /\ cout' = PutLine(s, HandlerLine(HandlerChain[h], exc.what))
             /\ handled' = Append(handled, [exception |-> exc.type,
                                             clause |-> HandlerChain[h]])
             /\ Return("main_call")
             /\ UNCHANGED exitStatus

\* Lines 405-417.
EH_Try ==
    /\ pc = "demonstrateErrorHandling"
    /\ LET s1 == PutLine(Header(cout, "Error Handling"), "Attempting division...")
       IN  IF denominator = 0
           THEN Throw(DivisionByZero, s1)
           ELSE /\ cout' = s1
                /\ frame' = [routine |-> frame.routine, numerator |-> 10,
                             denominator |-> denominator]
                /\ pc' = "eh_419"
                /\ UNCHANGED <<mainIdx, callLog, handled, exitStatus>>
    /\ UNCHANGED <<lifeLog, retval, sumArgs, denominator, atIndex, inject, cpp20>>

\* Lines 419-420.  Both operands are positive.
EH_Divide ==
    /\ pc = "eh_419"
    /\ LET result == frame.numerator \div frame.denominator
       IN  cout' = Endl(PutInt(Put(cout, "Result: "), result))
    /\ pc' = "eh_423"
    /\ UNCHANGED <<mainIdx, callLog, frame, lifeLog, retval, exitStatus,
                   handled, sumArgs, denominator, atIndex, inject, cpp20>>

\* Line 423.
EH_Vector ==
    /\ pc = "eh_423"
    /\ IF inject # "none"
       THEN Throw(Injected(inject), cout)
       ELSE /\ frame' = [routine |-> frame.routine, numerator |-> frame.numerator,
                         denominator |-> frame.denominator, vec |-> <<1, 2, 3>>]
            /\ pc' = "eh_425"
            /\ UNCHANGED <<mainIdx, callLog, cout, handled, exitStatus>>
    /\ UNCHANGED <<lifeLog, retval, sumArgs, denominator, atIndex, inject, cpp20>>

\* Whether "vec[1]: " is inserted before vec.at is evaluated: the operands
\* of << are evaluated left to right from C++17 on, in any order before.
LabelFirst == IF cpp20 THEN {TRUE} ELSE BOOLEAN

\* Lines 425-426 and 440.
EH_At ==
    /\ pc = "eh_425"
    /\ IF atIndex < Len(frame.vec)
       THEN /\ cout' = Endl(PutInt(Put(cout, "vec[1]: "), frame.vec[atIndex + 1]))
            /\ Return("main_call")
            /\ UNCHANGED <<handled, exitStatus>>
       ELSE \E first \in LabelFirst :
               Throw(OutOfRange(atIndex, Len(frame.vec)),
                     IF first THEN Put(cout, "vec[1]: ") ELSE cout)
    /\ UNCHANGED <<lifeLog, retval, sumArgs, denominator, atIndex, inject, cpp20>>


(***************************************************************************)
(* demonstrateModernIO                                                     *)
(***************************************************************************)
Digits == {"0", "1", "2", "3", "4", "5", "6", "7", "8", "9"}

DigitValue(c) == CHOOSE d \in 0..9 : DigitChar(d) = c

RECURSIVE SkipSpace(_)
SkipSpace(cs) == IF cs # <<>> /\ Head(cs) = " " THEN SkipSpace(Tail(cs)) ELSE cs

\* The longest prefix of cs made of characters of the set keep.
RECURSIVE TakeWhile(_, _)
TakeWhile(cs, keep) == IF cs # <<>> /\ Head(cs) \in keep
                       THEN <<Head(cs)>> \o TakeWhile(Tail(cs), keep)
                       ELSE <<>>

\* The longest prefix of cs without a blank.
RECURSIVE TakeWord(_)
TakeWord(cs) == IF cs # <<>> /\ Head(cs) # " "
                THEN <<Head(cs)>> \o TakeWord(Tail(cs))
                ELSE <<>>

Drop(cs, n) == SubSeq(cs, n + 1, Len(cs))

RECURSIVE DigitsValue(_, _)
DigitsValue(ds, acc) == IF ds = <<>> THEN acc
                        ELSE DigitsValue(Tail(ds), 10 * acc + DigitValue(Head(ds)))

RECURSIVE Join(_)
Join(cs) == IF cs = <<>> THEN "" ELSE Head(cs) \o Join(Tail(cs))

\* operator>>(int&): leading blanks skipped, then the digits.
ExtractInt(cs) ==
    LET t  == SkipSpace(cs)
        ds == TakeWhile(t, Digits)
    IN  [value |-> DigitsValue(ds, 0), rest |-> Drop(t, Len(ds))]

\* operator>>(double&): digits, a point, digits; the value in millionths.
ExtractDouble(cs) ==
    LET t   == SkipSpace(cs)
        ip  == TakeWhile(t, Digits)
        t2  == Drop(t, Len(ip))
        dot == t2 # <<>> /\ Head(t2) = "."
        fr  == IF dot THEN TakeWhile(Tail(t2), Digits) ELSE <<>>
        fr6 == SubSeq(fr \o <<"0", "0", "0", "0", "0", "0">>, 1, MicroDigits)
    IN  [value |-> DigitsValue(ip, 0) * Micro + DigitsValue(fr6, 0),
         rest |-> Drop(t2, IF dot THEN Len(fr) + 1 ELSE 0)]

\* operator>>(std::string&): leading blanks skipped, then up to the next blank.
ExtractString(cs) ==
    LET t == SkipSpace(cs)
        w == TakeWord(t)
    IN  [value |-> Join(w), rest |-> Drop(t, Len(w))]

\* std::stoi on a string of digits.
stoi(cs) == ExtractInt(cs).value

\* Lines 444-457.  pi is 3.14159265359, held to six decimals.
IO_Head ==
    /\ pc = "demonstrateModernIO"
    /\ cout' = PutLines(Header(cout, "Modern I/O Operations"),
                        <<"===== Modern Output Methods =====",
                          "1. Traditional std::cout with concatenation",
                          "2. Formatted output with manipulators:">>)
    /\ frame' = [routine |-> frame.routine, num |-> 42, pi |-> 3141593]
    /\ pc' = "io_458"
    /\ UNCHANGED <<mainIdx, callLog, lifeLog, retval, exitStatus, handled,
                   sumArgs, denominator, atIndex, inject, cpp20>>

\* Line 458.
IO_Hex ==
    /\ pc = "io_458"
    /\ cout' = Endl(PutInt(Showbase(Hex(Put(cout, "   Hex: "))), frame.num))
    /\ pc' = "io_459"
    /\ UNCHANGED <<mainIdx, callLog, frame, lifeLog, retval, exitStatus,
                   handled, sumArgs, denominator, atIndex, inject, cpp20>>

\* Line 459.
IO_Dec ==
    /\ pc = "io_459"
    /\ cout' = Endl(PutInt(Dec(Put(cout, "   Decimal: ")), frame.num))
    /\ pc' = "io_460"
    /\ UNCHANGED <<mainIdx, callLog, frame, lifeLog, retval, exitStatus,
                   handled, sumArgs, denominator, atIndex, inject, cpp20>>

\* Line 460.
IO_Fixed ==
    /\ pc = "io_460"
    /\ cout' = Endl(PutDouble(Setprecision(Fixed(Put(cout, "   Fixed precision: ")), 2),
                              frame.pi))
    /\ pc' = "io_461"
    /\ UNCHANGED <<mainIdx, callLog, frame, lifeLog, retval, exitStatus,
                   handled, sumArgs, denominator, atIndex, inject, cpp20>>

\* Line 461.
IO_Scientific ==
    /\ pc = "io_461"
    /\ cout' = Endl(PutDouble(Scientific(Put(cout, "   Scientific: ")), frame.pi))
    /\ pc' = "io_463"
    /\ UNCHANGED <<mainIdx, callLog, frame, lifeLog, retval, exitStatus,
                   handled, sumArgs, denominator, atIndex, inject, cpp20>>

\* Line 463, "Reset formatting": defaultfloat and setprecision(6).
ResetFormatting(s) == Setprecision(Defaultfloat(s), 6)

IO_Reset ==
    /\ pc = "io_463"
    /\ cout' = ResetFormatting(cout)
    /\ pc' = "io_466"
    /\ UNCHANGED <<mainIdx, callLog, frame, lifeLog, retval, exitStatus,
                   handled, sumArgs, denominator, atIndex, inject, cpp20>>

\* Lines 466-470.  oss is a stream of its own.
IO_StringStream ==
    /\ pc = "io_466"
    /\ LET o1  == Put(NewStream, "String stream allows building complex strings: ")
           o2  == Put(PutInt(Put(o1, "Value="), frame.num), ", Pi=")
           oss == PutDouble(Setprecision(Fixed(o2), 2), frame.pi)
       IN  cout' = PutLine(PutLine(cout, "3. Using string streams:"),
                           "   " \o oss.cur)
    /\ pc' = "io_473"
    /\ UNCHANGED <<mainIdx, callLog, frame, lifeLog, retval, exitStatus,
                   handled, sumArgs, denominator, atIndex, inject, cpp20>>

\* Lines 473-474.  The C formatter does not read the flags of std::cout.
IO_Stdio ==
    /\ pc = "io_473"
    /\ cout' = PutLine(PutLine(cout, "4. printf-style formatting:"),
                       "   Classic printf: num=" \o IntToStr(frame.num)
                           \o ", pi=" \o FmtFixed(frame.pi, 2))
    /\ pc' = "io_478"
    /\ UNCHANGED <<mainIdx, callLog, frame, lifeLog, retval, exitStatus,
                   handled, sumArgs, denominator, atIndex, inject, cpp20>>

\* Lines 478-486: compiled one way or the other.
IO_Format ==
    /\ pc = "io_478"
    /\ cout' = IF cpp20
               THEN PutLines(cout,
                      <<"5. C++20 std::format (like C# string interpolation):",
                        "   Number: " \o IntToStr(frame.num) \o ", Pi: "
                            \o FmtFixed(frame.pi, 2),
                        "   Hex: 0x" \o ToBase(frame.num, 16) \o ", Decimal: "
                            \o IntToStr(frame.num) \o ", Pi: "
                            \o FmtFixed(frame.pi, 3)>>)
               ELSE PutLine(cout,
                      "5. C++20 std::format not available with current compiler settings")
    /\ pc' = "io_489"
    /\ UNCHANGED <<mainIdx, callLog, frame, lifeLog, retval, exitStatus,
                   handled, sumArgs, denominator, atIndex, inject, cpp20>>

\* Lines 489-520.  The reads of std::cin are commented out.
IO_StringView ==
    /\ pc = "io_489"
    /\ LET sv == "Efficient string_view for print operations"
       IN  cout' = PutLines(cout,
                     <<"6. Modern printing without std::endl (better performance)",
                       "7. Using string_view: " \o sv,
                       "",
                       "===== Modern Input Methods =====",
                       "1. Traditional std::cin (uncomment to use):",
                       "2. Reading lines with std::getline (uncomment to use):",
                       "3. Input with validation (uncomment to use):">>)
    /\ pc' = "io_539"
    /\ UNCHANGED <<mainIdx, callLog, frame, lifeLog, retval, exitStatus,
                   handled, sumArgs, denominator, atIndex, inject, cpp20>>

\* Lines 539-545: iss holds what is left to read of "123 3.14 Hello".
IO_ParseData ==
    /\ pc = "io_539"
    /\ LET data == <<"1", "2", "3", " ", "3", ".", "1", "4", " ",
                     "H", "e", "l", "l", "o">>
       IN  frame' = [routine |-> frame.routine, num |-> frame.num,
                     pi |-> frame.pi, iss |-> data, parsed_int |-> 0,
                     parsed_double |-> 0, parsed_string |-> ""]
    /\ cout' = PutLine(cout, "4. Using string streams for parsing:")
    /\ pc' = "io_547"
    /\ UNCHANGED <<mainIdx, callLog, lifeLog, retval, exitStatus, handled,
                   sumArgs, denominator, atIndex, inject, cpp20>>

\* Line 547: iss >> parsed_int.
IO_ExtractInt ==
    /\ pc = "io_547"
    /\ LET r == ExtractInt(frame.iss)
       IN  frame' = [frame EXCEPT !.parsed_int = r.value, !.iss = r.rest]
    /\ pc' = "io_547_double"
    /\ UNCHANGED <<mainIdx, callLog, cout, lifeLog, retval, exitStatus,
                   handled, sumArgs, denominator, atIndex, inject, cpp20>>

\* Line 547: >> parsed_double.
IO_ExtractDouble ==
    /\ pc = "io_547_double"
    /\ LET r == ExtractDouble(frame.iss)
       IN  frame' = [frame EXCEPT !.parsed_double = r.value, !.iss = r.rest]
    /\ pc' = "io_547_string"
    /\ UNCHANGED <<mainIdx, callLog, cout, lifeLog, retval, exitStatus,
                   handled, sumArgs, denominator, atIndex, inject, cpp20>>

\* Line 547: >> parsed_string.
IO_ExtractString ==
    /\ pc = "io_547_string"
    /\ LET r == ExtractString(frame.iss)
       IN  frame' = [frame EXCEPT !.parsed_string = r.value, !.iss = r.rest]
    /\ pc' = "io_549"
    /\ UNCHANGED <<mainIdx, callLog, cout, lifeLog, retval, exitStatus,
                   handled, sumArgs, denominator, atIndex, inject, cpp20>>

\* Lines 549-551.
IO_PutParsed ==
    /\ pc = "io_549"
    /\ LET s1 == Endl(PutInt(Put(cout, "   Parsed int: "), frame.parsed_int))
           s2 == Endl(PutDouble(Put(s1, "   Parsed double: "), frame.parsed_double))
       IN  cout' = PutLine(s2, "   Parsed string: " \o frame.parsed_string)
    /\ pc' = "io_555"
    /\ UNCHANGED <<mainIdx, callLog, frame, lifeLog, retval, exitStatus,
                   handled, sumArgs, denominator, atIndex, inject, cpp20>>

\* Lines 554-557.
IO_Stoi ==
    /\ pc = "io_555"
    /\ LET number_str == <<"4", "2">>
           converted  == stoi(number_str)
       IN  cout' = Endl(PutInt(Put(PutLine(cout, "5. Modern parsing approaches:"),
                                   "   String to int: "), converted))
    /\ pc' = "io_560"
    /\ UNCHANGED <<mainIdx, callLog, frame, lifeLog, retval, exitStatus,
                   handled, sumArgs, denominator, atIndex, inject, cpp20>>

\* Lines 560-566.  The bullet character is written here as "*".
IO_BestPractices ==
    /\ pc = "io_560"
    /\ cout' = PutLines(cout,
                 <<"6. Modern I/O best practices:",
                   "   * Prefer '\\n' over std::endl when flushing isn't needed",
                   "   * Use string_view when not modifying strings",
                   "   * Use std::format in C++20 for readable formatting",
                   "   * Consider using <charconv> for fast numeric conversions",
                   "   * Always validate user input">>)
    /\ Return("main_call")
    /\ UNCHANGED <<lifeLog, retval, exitStatus, handled,
                   sumArgs, denominator, atIndex, inject, cpp20>>

(***************************************************************************)
(* The program                                                            *)
(***************************************************************************)
Start ==
    /\ pc = "main"
    /\ mainIdx = 0
    /\ callLog = <<>>
    /\ cout = NewStream
    /\ frame = NoFrame
    /\ lifeLog = <<>>
    /\ retval = 0
    /\ exitStatus = Running
    /\ handled = <<>>
    /\ cpp20 \in BOOLEAN

\* The program as written.
Init ==
    /\ Start
    /\ sumArgs = <<5, 7>>
    /\ denominator = Denominator
    /\ atIndex = AtIndex
    /\ inject = "none"

\* returnSum on sampled arguments.
InitSum ==
    /\ Start
    /\ sumArgs \in IntSamples \X IntSamples
    /\ denominator = Denominator
    /\ atIndex = AtIndex
    /\ inject = "none"

\* demonstrateErrorHandling on every denominator, index and exception of
\* the bounds.
InitEH ==
    /\ Start
    /\ sumArgs = <<5, 7>>
    /\ denominator \in 0..MaxDenominator
    /\ atIndex \in 0..MaxIndex
    /\ inject \in Injections

Next ==
    \/ MainBanner \/ MainCall \/ MainPutSum \/ MainFinish
    \/ BasicSyntax
    \/ VT_Declare \/ VT_Put \/ VT_Convert
    \/ CF_If \/ CF_Switch \/ CF_For \/ CF_RangeFor \/ CF_While
    \/ CF_DoBody \/ CF_DoTest \/ CF_DoExit
    \/ F_Param \/ F_Lambda \/ ReturnSum
    \/ RP_Reference \/ RP_WriteReference \/ RP_Pointer \/ RP_WritePointer
    \/ RP_SmartPointer \/ RP_Return
    \/ CL_Alice \/ CL_NewBob \/ CL_DeleteBob \/ CL_Charlie \/ CL_Dave
    \/ CL_DaveIntroduce \/ CL_ScopeExit \/ CL_Return
    \/ MC_Auto \/ MC_Lambda \/ MC_Move \/ MC_Loop \/ MC_Return
    \/ ST_Vector \/ ST_PushBack \/ ST_PopBack \/ ST_LoopVector \/ ST_Map
    \/ ST_LoopMap \/ ST_Find \/ ST_Sort \/ ST_LoopSorted \/ ST_Transform
    \/ ST_LoopDoubled \/ ST_Return
    \/ EH_Try \/ EH_Divide \/ EH_Vector \/ EH_At
    \/ IO_Head \/ IO_Hex \/ IO_Dec \/ IO_Fixed \/ IO_Scientific \/ IO_Reset
    \/ IO_StringStream \/ IO_Stdio \/ IO_Format \/ IO_StringView
    \/ IO_ParseData \/ IO_ExtractInt \/ IO_ExtractDouble \/ IO_ExtractString
    \/ IO_PutParsed \/ IO_Stoi \/ IO_BestPractices

Spec == Init /\ [][Next]_vars

\* Sequential execution: a statement that can run does run.
LiveSpec == Init /\ [][Next]_vars /\ WF_vars(Next)

SpecSum == InitSum /\ [][Next]_vars

SpecEH == InitEH /\ [][Next]_vars


(***************************************************************************)
(* Properties                                                              *)
(***************************************************************************)
Contains(seq, x) == \E i \in 1..Len(seq) : seq[i] = x

Returned(routine) == Contains(callLog, <<"return", routine>>)

Count(seq, x) == Cardinality({i \in 1..Len(seq) : seq[i] = x})

IsPrefix(p, q) == Len(p) <= Len(q) /\ \A i \in 1..Len(p) : p[i] = q[i]

\* The program as written: denominator 2, vec.at(1), no other exception.
AsWritten == denominator = 2 /\ atIndex = 1 /\ inject = "none"

\* C1 as stated: on every run the division-by-zero runtime_error is thrown
\* in demonstrateErrorHandling and caught there, and the line
\* "Runtime error: Division by zero!" is written.
C1_DivisionByZeroTriggered ==
    Returned("demonstrateErrorHandling") =>
        /\ Contains(cout.lines, "Runtime error: Division by zero!")
        /\ handled = <<[exception |-> "runtime_error", clause |-> "runtime_error"]>>

\* C1 amended: the division-by-zero example is not triggered: the
\* denominator is 2, no runtime_error is thrown, no handler runs, "Result: 5"
\* is written and not "Runtime error: Division by zero!", and the program
\* continues to its end with status 0.
C1_DivisionNotTriggered ==
    /\ pc # "terminated"
    /\ Returned("demonstrateErrorHandling") =>
           /\ handled = <<>>
           /\ Contains(cout.lines, "Result: 5")
           /\ ~Contains(cout.lines, "Runtime error: Division by zero!")
    /\ pc = "done" => Returned("demonstrateErrorHandling") /\ exitStatus = 0

C1_Witness ==
    /\ pc = "done"
    /\ Contains(cout.lines, "Result: 5")
    /\ handled = <<>>

\* C2: every run of main reaches its end: "Tutorial completed
\* successfully!" is the last line written and main returns 0.
C2_Terminates ==
    <>(/\ pc = "done"
       /\ exitStatus = 0
       /\ cout.cur = ""
       /\ cout.lines # <<>>
       /\ cout.lines[Len(cout.lines)] = "Tutorial completed successfully!")

C2_Witness ==
    /\ pc = "done"
    /\ exitStatus = 0
    /\ cout.lines[Len(cout.lines)] = "Tutorial completed successfully!"

\* The order of demonstration the specification gives.
ExpectedOrder == <<"demonstrateBasicSyntax", "demonstrateVariablesAndTypes",
                   "demonstrateControlFlow", "demonstrateFunctions",
                   "returnSum", "demonstrateReferencesAndPointers",
                   "demonstrateClasses", "demonstrateModernCpp",
                   "demonstrateStl", "demonstrateErrorHandling",
                   "demonstrateModernIO">>

\* call r1, return r1, call r2, return r2, ...
ExpectedLog == [i \in 1..(2 * Len(ExpectedOrder)) |->
                   IF i % 2 = 1 THEN <<"call", ExpectedOrder[(i + 1) \div 2]>>
                   ELSE <<"return", ExpectedOrder[i \div 2]>>]

\* C3: the routines run exactly once each, in the fixed order, each
\* starting only after the one before it has returned: the calls and
\* returns made so far are always an initial part of call r1, return r1,
\* call r2, return r2, ..., and at the end they are all of it.
C3_FixedOrder ==
    /\ IsPrefix(callLog, ExpectedLog)
    /\ pc = "done" => callLog = ExpectedLog
    /\ \A r \in {ExpectedOrder[i] : i \in 1..Len(ExpectedOrder)} :
           /\ Count(callLog, <<"call", r>>) <= 1
           /\ pc = "done" => Count(callLog, <<"call", r>>) = 1

C3_Witness ==
    /\ pc = "done"
    /\ Len(callLog) = 22
    /\ Returned("demonstrateModernIO")

\* C4: no exception leaves demonstrateErrorHandling: whatever the try
\* block throws, one handler runs and no more, the routine returns,
\* demonstrateModernIO runs after it and main returns 0; the program is
\* never terminated and, until main has returned, always has a next step.
C4_NoErrorEscapes ==
    /\ pc # "terminated"
    /\ Len(handled) <= 1
    /\ handled # <<>> => Returned("demonstrateErrorHandling")
    /\ pc # "done" => ENABLED Next
    /\ pc = "done" => /\ exitStatus = 0
                      /\ Returned("demonstrateErrorHandling")
                      /\ Returned("demonstrateModernIO")
                      /\ IsPrefix(<<<<"return", "demonstrateErrorHandling">>,
                                    <<"call", "demonstrateModernIO">>>>,
                                  SubSeq(callLog, 20, Len(callLog)))

C4_Witness ==
    /\ pc = "done"
    /\ exitStatus = 0
    /\ handled = <<[exception |-> "other", clause |-> "..."]>>

\* C5 as stated: the routine as written raises both the division-by-zero
\* error and the out-of-range error, each handled by its own handler.
C5_BothRaised ==
    (AsWritten /\ Returned("demonstrateErrorHandling")) =>
        /\ Contains(handled, [exception |-> "runtime_error", clause |-> "runtime_error"])
        /\ Contains(handled, [exception |-> "out_of_range", clause |-> "out_of_range"])

\* The line the out_of_range handler completes for index n of a vector of
\* three elements.
OutOfRangeLines(n) ==
    {prefix \o "Out of range error: " \o OutOfRange(n, 3).what :
        prefix \in {"", "vec[1]: "}}

\* C5 amended: the routine as written raises neither error, and a call
\* raises at most one.  With denominator 0 the division-by-zero
\* runtime_error is raised and handled by the runtime_error handler; with
\* an index past the end of vec the out_of_range error of vec.at is raised
\* and handled by the out_of_range handler; neither is handled by the
\* generic handler or the catch-all, and the handler writes the error's
\* message.
C5_SpecificHandlers ==
    /\ Len(handled) <= 1
    /\ \A i \in 1..Len(handled) :
           handled[i].exception \in {"runtime_error", "out_of_range"} =>
               handled[i].clause = handled[i].exception
    /\ Returned("demonstrateErrorHandling") =>
           /\ AsWritten => handled = <<>>
           /\ denominator = 0 =>
                  /\ handled = <<[exception |-> "runtime_error",
                                  clause |-> "runtime_error"]>>
                  /\ Contains(cout.lines, "Runtime error: Division by zero!")
           /\ (denominator # 0 /\ inject = "none" /\ atIndex >= 3) =>
                  /\ handled = <<[exception |-> "out_of_range",
                                  clause |-> "out_of_range"]>>
                  /\ \E l \in OutOfRangeLines(atIndex) : Contains(cout.lines, l)

C5_Witness ==
    /\ Returned("demonstrateErrorHandling")
    /\ atIndex = 3
    /\ handled = <<[exception |-> "out_of_range", clause |-> "out_of_range"]>>

\* C6 as stated: whenever a routine has returned to main, everything it
\* changed is back to its initial value: its locals are gone and the
\* formatting flags of std::cout are those of a fresh stream.
C6_StateRestored ==
    pc = "main_call" =>
        /\ frame = NoFrame
        /\ FmtFlags(cout) = FmtFlags(NewStream)

\* C7: returnSum(a, b) returns a + b whenever the sum fits in an int, main
\* writes that sum after "Sum: ", and for 5 and 7 the line is "Sum: 12".
C7_ReturnSum ==
    (Returned("returnSum") /\ SumFits(sumArgs[1], sumArgs[2])) =>
        /\ retval = sumArgs[1] + sumArgs[2]
        /\ pc # "main_47" =>
               Contains(cout.lines, "Sum: " \o IntToStr(sumArgs[1] + sumArgs[2]))
        /\ (pc # "main_47" /\ sumArgs = <<5, 7>>) =>
               Contains(cout.lines, "Sum: 12")

C7_Witness ==
    /\ Returned("returnSum")
    /\ sumArgs = <<5, 7>>
    /\ retval = 12
    /\ Contains(cout.lines, "Sum: 12")

Persons == {"Alice", "Bob", "Charlie", "Dave"}

\* The position of the event in lifeLog, 0 when it is not there.
EventAt(e) == IF Contains(lifeLog, e)
              THEN CHOOSE i \in 1..Len(lifeLog) : lifeLog[i] = e
              ELSE 0

RECURSIVE Destroyed(_)
\* The names destroyed, in order.
Destroyed(log) == IF log = <<>> THEN <<>>
                  ELSE IF Head(log)[1] = "dtor"
                       THEN <<Head(log)[2]>> \o Destroyed(Tail(log))
                       ELSE Destroyed(Tail(log))

\* C8: every Person of demonstrateClasses is destroyed exactly once before
\* the routine returns: Bob by the delete, before Charlie is created, then
\* Dave, Charlie and Alice in that order at the routine's exit; no object
\* is used after its destruction.
C8_Lifetimes ==
    /\ \A p \in Persons :
           /\ Count(lifeLog, <<"ctor", p>>) <= 1
           /\ Count(lifeLog, <<"dtor", p>>) <= Count(lifeLog, <<"ctor", p>>)
           /\ \A i, j \in 1..Len(lifeLog) :
                  (lifeLog[i] = <<"dtor", p>> /\ lifeLog[j] = <<"use", p>>) => j < i
    /\ IsPrefix(Destroyed(lifeLog), <<"Bob", "Dave", "Charlie", "Alice">>)
    /\ Contains(lifeLog, <<"ctor", "Charlie">>) =>
           /\ Contains(lifeLog, <<"dtor", "Bob">>)
           /\ EventAt(<<"dtor", "Bob">>) < EventAt(<<"ctor", "Charlie">>)
    /\ Returned("demonstrateClasses") =>
           /\ \A p \in Persons : /\ Count(lifeLog, <<"ctor", p>>) = 1
                                 /\ Count(lifeLog, <<"dtor", p>>) = 1
           /\ Destroyed(lifeLog) = <<"Bob", "Dave", "Charlie", "Alice">>

C8_Witness ==
    /\ Returned("demonstrateClasses")
    /\ Destroyed(lifeLog) = <<"Bob", "Dave", "Charlie", "Alice">>
    /\ Len(lifeLog) = 12

\* The position of the line in the output, 0 when it is not there.
LineAt(l) == IF Contains(cout.lines, l)
             THEN CHOOSE i \in 1..Len(cout.lines) : cout.lines[i] = l
             ELSE 0

\* C9: for Dave "Person created: Dave" comes right before "Employee
\* created at Acme Inc", and dave.introduce() writes the Employee version
\* of the line, with name, age and company, not the Person version.
C9_EmployeeDave ==
    /\ Contains(lifeLog, <<"ctor", "Dave">>) =>
           /\ LineAt("Person created: Dave") > 0
           /\ LineAt("Employee created at Acme Inc") = LineAt("Person created: Dave") + 1
    /\ Contains(lifeLog, <<"use", "Dave">>) =>
           /\ LineAt("Hi, I'm Dave, 40 years old, and I work at Acme Inc.")
                  = LineAt("Employee created at Acme Inc") + 1
           /\ ~Contains(cout.lines, "Hi, I'm Dave and I'm 40 years old.")
    /\ ~Contains(lifeLog, <<"use", "Dave">>) =>
           ~Contains(cout.lines, "Hi, I'm Dave, 40 years old, and I work at Acme Inc.")

C9_Witness ==
    /\ Contains(lifeLog, <<"use", "Dave">>)
    /\ Contains(cout.lines, "Hi, I'm Dave, 40 years old, and I work at Acme Inc.")

InStl(labels) == frame.routine = "demonstrateStl" /\ pc \in labels

\* C10: in demonstrateStl, after push_back(60) and pop_back the vector is
\* 10 20 30 40 50 again and stays so through the sort; 30 is found at
\* position 2; the doubled vector has the length of the vector and twice
\* its element at every index.
C10_Vector ==
    /\ InStl({"st_355"}) => frame.numbers = <<10, 20, 30, 40, 50, 60>>
    /\ InStl({"st_358", "st_370", "st_384", "st_386", "st_397"}) =>
           frame.numbers = <<10, 20, 30, 40, 50>>
    /\ InStl({"st_384", "st_386", "st_397"}) =>
           Contains(cout.lines, "Find 30 in vector: Found at position 2")
    /\ InStl({"st_397"}) =>
           /\ Contains(cout.lines, "Sorted vector: 10 20 30 40 50 ")
           /\ Len(frame.doubled) = Len(frame.numbers)
           /\ \A i \in 1..Len(frame.numbers) : frame.doubled[i] = 2 * frame.numbers[i]
    /\ Returned("demonstrateStl") =>
           /\ Contains(cout.lines, "Vector elements: 10 20 30 40 50 ")
           /\ Contains(cout.lines, "Doubled vector: 20 40 60 80 100 ")

C10_Witness ==
    /\ Returned("demonstrateStl")
    /\ Contains(cout.lines, "Find 30 in vector: Found at position 2")
    /\ Contains(cout.lines, "Doubled vector: 20 40 60 80 100 ")


\* The cells of demonstrateReferencesAndPointers that exist at the labels.
InRP(labels) == frame.routine = "demonstrateReferencesAndPointers" /\ pc \in labels

\* C11: the write through the reference changes original to 100 and
\* nothing else; the write through the pointer changes value to 200 and
\* nothing else: original stays 100 after it, the int of the smart pointer
\* is 42, and the three objects lie at different addresses.
C11_WritesAreLocal ==
    /\ InRP({"rp_216"}) =>
           /\ frame.reference = frame.original
           /\ frame.mem = (frame.original :> 42)
    /\ InRP({"rp_220"}) => frame.mem = (frame.original :> 100)
    /\ InRP({"rp_228"}) =>
           /\ frame.pointer = frame.value
           /\ frame.value # frame.original
           /\ frame.mem = (frame.original :> 100) @@ (frame.value :> 42)
    /\ InRP({"rp_232"}) =>
           frame.mem = (frame.original :> 100) @@ (frame.value :> 200)
    /\ InRP({"rp_237"}) =>
           /\ Cardinality({frame.original, frame.value, frame.smartPtr}) = 3
           /\ frame.mem = (frame.original :> 100) @@ (frame.value :> 200)
                              @@ (frame.smartPtr :> 42)
    /\ Returned("demonstrateReferencesAndPointers") =>
           /\ Contains(cout.lines, "After modifying reference, original: 100")
           /\ Contains(cout.lines, "After modifying pointer, value: 200")
           /\ Contains(cout.lines, "Smart pointer value: 42")

C11_Witness ==
    /\ InRP({"rp_237"})
    /\ frame.mem[frame.original] = 100
    /\ frame.mem[frame.value] = 200
    /\ frame.mem[frame.smartPtr] = 42


\* The lines the if chain and the switch of demonstrateControlFlow can write.
IfLines == {"x is greater than 5", "x is equal to 5", "x is less than 5"}

SwitchLines == {"x is 5", "x is 10", "x is neither 5 nor 10"}

\* How many lines of the output are in the set.
CountIn(lines) == Cardinality({i \in 1..Len(cout.lines) : cout.lines[i] \in lines})

InCF(labels) == frame.routine = "demonstrateControlFlow" /\ pc \in labels

\* The loop variable stays within 0..5, and once demonstrateControlFlow has
\* returned each of the three loops has written 0 1 2 3 4, five iterations,
\* one line of the if chain was written, "x is greater than 5", and one
\* line of the switch, "x is 10".
C12_ControlFlowState ==
    /\ InCF({"cf_144", "cf_160", "cf_169", "cf_172"}) => frame.i \in 0..5
    /\ InCF({"cf_169"}) => frame.i \in 0..4
    /\ InCF({"cf_172"}) => frame.i \in 1..5
    /\ InCF({"cf_130"}) => CountIn(IfLines) = 1 /\ CountIn(SwitchLines) = 0
    /\ Returned("demonstrateControlFlow") =>
           /\ Contains(cout.lines, "For loop: 0 1 2 3 4 ")
           /\ Contains(cout.lines, "While loop: 0 1 2 3 4 ")
           /\ Contains(cout.lines, "Do-while loop: 0 1 2 3 4 ")
           /\ CountIn(IfLines) = 1
           /\ Contains(cout.lines, "x is greater than 5")
           /\ CountIn(SwitchLines) = 1
           /\ Contains(cout.lines, "x is 10")

\* C12: the for, while and do-while loops of demonstrateControlFlow each
\* end after exactly five iterations, each writing 0 1 2 3 4, and with
\* x = 10 exactly one branch of the if chain ("x is greater than 5") and
\* exactly one case of the switch ("x is 10") runs: the routine always
\* returns, and the state above holds throughout.
C12_ControlFlow ==
    /\ []C12_ControlFlowState
    /\ <>Returned("demonstrateControlFlow")

C12_Witness ==
    /\ Returned("demonstrateControlFlow")
    /\ Contains(cout.lines, "Do-while loop: 0 1 2 3 4 ")
    /\ CountIn(SwitchLines) = 1

====
